---- MODULE Spec2Model ----
(***************************************************************************)
(* Fantasy football Monte Carlo draft simulator.                           *)
(*                                                                         *)
(* State machine of the draft engine: the League aggregate (teams,         *)
(* rosters, starters, draft_order queue, current_draft_turn, player        *)
(* catalog), the picks made on it by name or by simulate_pick, the         *)
(* re-construction of a League from its dumped fields, and the time-boxed  *)
(* monte_carlo_draft loop working on a per-iteration copy.                 *)
(*                                                                         *)
(* The repository has two front ends that carry their own copy of the      *)
(* engine functions: backend/app.py (HTTP) and backend/main.py (command    *)
(* line).  The variable `program` says which one runs.                     *)
(*                                                                         *)
(* Conventions: team indices in draft_order are 0-based as in the source,  *)
(* sequences are 1-based, so team index t is teams[t + 1].  Points are     *)
(* floats in the source (PlayerPoints.projected_points); the model counts  *)
(* them in tenths of a point, so 250 is 25.0 points and 75 is 7.5 points.  *)
(* Adjustments are counted in thousandths (-500 is -0.5).  A player        *)
(* has points for the draft year only, so the per-year dictionaries are    *)
(* a single number.  League.draft_results (a log of team snapshots that no *)
(* function reads) and the name and owner of a team are left out: a team   *)
(* is told from the others by its draft slot.                              *)
(***************************************************************************)
EXTENDS Integers, Sequences, FiniteSets, TLC

(***************************************************************************)
(* Configuration (models/config.py).                                       *)
(***************************************************************************)
ROSTER_SIZE == 12
QB_SIZE == 1
RB_SIZE == 2
WR_SIZE == 2
TE_SIZE == 1
FLEX_SIZE == 1
DST_SIZE == 1
K_SIZE == 1
\* MAX_RANDOM_ADJUSTMENT = 0.1, in hundredths
MAX_RANDOM_ADJUSTMENT == 10
\* ROUND_SIZE is read from the environment; the model runs a short draft.
ROUND_SIZE == 2

(***************************************************************************)
(* Bounds of the model.                                                    *)
(***************************************************************************)
\* number of teams in the league
NumTeams == 2
\* real picks are explored while current_draft_turn is below this
MaxTurn == 4
\* predict_proba numerators are drawn from 1..MaxWeight
MaxWeight == 2
\* time budgets and clock readings of monte_carlo_draft range over 0..MaxSeconds
MaxSeconds == 2

(***************************************************************************)
(* Sequence helpers.                                                       *)
(***************************************************************************)
Min(a, b) == IF a < b THEN a ELSE b

\* Python s[:n]
Take(s, n) == SubSeq(s, 1, Min(n, Len(s)))

\* Python x in s
InSeq(x, s) == \E i \in 1..Len(s) : s[i] = x

\* Python s[::-1]
Reverse(s) == [i \in 1..Len(s) |-> s[Len(s) + 1 - i]]

\* Python s.index(x) (0-based), x in s
IndexOf(x, s) == (CHOOSE i \in 1..Len(s) : s[i] = x /\ \A j \in 1..(i - 1) : s[j] # x) - 1

\* Python s.pop(i) / del s[i] for a 0-based i
RemoveAt(s, i) == SubSeq(s, 1, i) \o SubSeq(s, i + 2, Len(s))

\* round() of the fraction num / den, den > 0: to the nearest whole number,
\* a half to the even one
RoundHalfEven(num, den) ==
    LET q == num \div den
        r == num % den
    IN IF 2 * r < den THEN q
       ELSE IF 2 * r > den THEN q + 1
       ELSE IF q % 2 = 0 THEN q ELSE q + 1

RECURSIVE SumSeq(_)
SumSeq(s) == IF s = <<>> THEN 0 ELSE Head(s) + SumSeq(Tail(s))

\* the six positions in alphabetical order, the order of sklearn's classes_
ClassOrder == <<"dst", "k", "qb", "rb", "te", "wr">>

(***************************************************************************)
(* models/position.py                                                      *)
(***************************************************************************)
\* PositionSizes(): starting slots per position, in model_dump() key order
ps == [qb |-> QB_SIZE, rb |-> RB_SIZE, wr |-> WR_SIZE, te |-> TE_SIZE,
       flex |-> FLEX_SIZE, dst |-> DST_SIZE, k |-> K_SIZE]

ps_keys == <<"qb", "rb", "wr", "te", "flex", "dst", "k">>

\* the six player positions, in the order every loop of the source lists them
positions6 == <<"qb", "rb", "wr", "te", "dst", "k">>

\* PositionTiers() under a given ROSTER_SIZE: boundaries "1" and "2" per
\* position, doubled so that the 0.5 and 2.5 factors stay whole numbers
\* (i < b is checked as 2*i < 2*b)
PositionTiers(roster_size) ==
    [qb  |-> [b1 |-> 2 * QB_SIZE * roster_size,  b2 |-> 5 * QB_SIZE * roster_size],
     rb  |-> [b1 |-> RB_SIZE * roster_size,      b2 |-> 5 * RB_SIZE * roster_size],
     wr  |-> [b1 |-> WR_SIZE * roster_size,      b2 |-> 5 * WR_SIZE * roster_size],
     te  |-> [b1 |-> 2 * TE_SIZE * roster_size,  b2 |-> 4 * TE_SIZE * roster_size],
     k   |-> [b1 |-> 2 * K_SIZE * roster_size,   b2 |-> 4 * K_SIZE * roster_size],
     dst |-> [b1 |-> 2 * DST_SIZE * roster_size, b2 |-> 4 * DST_SIZE * roster_size]]

\* pt = PositionTiers()
pt == PositionTiers(ROSTER_SIZE)

\* the fields of PositionTierDistributions
TierKeys ==
    {"qb1", "qb2", "qb3", "rb1", "rb2", "rb3", "wr1", "wr2", "wr3", "te1", "te2", "te3"}

\* PositionTierDistributions(**given): a list of adjustments per tier, in
\* thousandths (-500 is -0.5), empty unless given
PositionTierDistributions(given) ==
    [t \in TierKeys |-> IF t \in DOMAIN given THEN given[t] ELSE <<>>]

(***************************************************************************)
(* models/player.py                                                        *)
(***************************************************************************)
\* Player(name, position, points): position_tier is None until Players() sets it
Player(name, position, projected_points) ==
    [name |-> name, position |-> position, position_tier |-> "None",
     projected_points |-> projected_points, drafted |-> FALSE]

\* sorted(players, key=projected_points, reverse=True): stable, equal keys keep
\* their input order
RECURSIVE InsertByPoints_later_first(_, _)
\* an insertion that puts a player ahead of the earlier players of equal points
InsertByPoints_later_first(x, s) ==
    IF s = <<>> THEN <<x>>
    ELSE IF Head(s).projected_points > x.projected_points
         THEN <<Head(s)>> \o InsertByPoints_later_first(x, Tail(s))
         ELSE <<x>> \o s

RECURSIVE InsertByPoints(_, _)
InsertByPoints(x, s) ==
    IF s = <<>> THEN <<x>>
    ELSE IF Head(s).projected_points >= x.projected_points
         THEN <<Head(s)>> \o InsertByPoints(x, Tail(s))
         ELSE <<x>> \o s

RECURSIVE SortedByPoints(_)
SortedByPoints(s) ==
    IF s = <<>> THEN <<>>
    ELSE InsertByPoints(s[Len(s)], SortedByPoints(SubSeq(s, 1, Len(s) - 1)))

\* the tier label with both comparisons inclusive (i <= b)
TierLabel_inclusive(position, i, tiers) ==
    IF position \notin DOMAIN tiers THEN position
    ELSE IF 2 * i <= tiers[position].b1 THEN position \o "1"
    ELSE IF 2 * i <= tiers[position].b2 THEN position \o "2"
    ELSE position \o "3"

\* the tier label of the player at 0-based rank i of a position list
TierLabel(position, i, tiers) ==
    IF position \notin DOMAIN tiers THEN position
    ELSE IF 2 * i < tiers[position].b1 THEN position \o "1"
    ELSE IF 2 * i < tiers[position].b2 THEN position \o "2"
    ELSE position \o "3"

\* Players(players=...): assign_players_to_positions.  The position lists hold
\* the same Player objects as the flat list, so the tier set through a position
\* list shows in the flat list too.
PlayersWithTiers(rows, tiers) ==
    LET ranked(p) == SortedByPoints(SelectSeq(rows, LAMBDA x : x.position = p))
        rank(x) == IndexOf(x, ranked(x.position))
        tiered(x) == [x EXCEPT !.position_tier = TierLabel(x.position, rank(x), tiers)]
        lift(s) == [i \in 1..Len(s) |-> tiered(s[i])]
    IN [players |-> lift(rows),
        qb |-> lift(ranked("qb")), rb |-> lift(ranked("rb")),
        wr |-> lift(ranked("wr")), te |-> lift(ranked("te")),
        dst |-> lift(ranked("dst")), k |-> lift(ranked("k"))]

Players(rows) == PlayersWithTiers(rows, pt)

\* int(x) for the fraction x = num / den, den > 0: toward zero
Trunc(num, den) == IF num >= 0 THEN num \div den ELSE -((-num) \div den)

\* randomized_points without its lower clamp (elif ... < 0)
randomized_points_unclamped(player, distributions, max_points, adjustment) ==
    LET raw == RoundHalfEven(player.projected_points * (1000 + adjustment), 10000)
        max_allowed == Trunc(max_points[player.position] * (100 + MAX_RANDOM_ADJUSTMENT),
                             1000)
    IN [raised |-> "None", projected_points |-> player.projected_points \div 10,
        randomized_points |-> IF raw > max_allowed THEN max_allowed ELSE raw,
        adjustment |-> RoundHalfEven(adjustment, 10),
        exceeded_max |-> raw > max_allowed]

\* Player.randomized_points, random.choice having drawn adjustment.  The
\* result is a PlayerPointsRandomized: randomized_points and projected_points
\* are int fields (whole points), which pydantic refuses to fill from a float
\* with a fractional part; the adjustment field is rounded to two decimals
\* (hundredths).
randomized_points(player, distributions, max_points, adjustment) ==
    LET projected_points == player.projected_points
        tier_distribution == IF player.position_tier \in DOMAIN distributions
                             THEN distributions[player.position_tier] ELSE <<>>
        raw == RoundHalfEven(projected_points * (1000 + adjustment), 10000)
        max_allowed == Trunc(max_points[player.position] * (100 + MAX_RANDOM_ADJUSTMENT),
                             1000)
    IN IF projected_points % 10 # 0
       THEN [raised |-> "ValidationError", projected_points |-> 0,
             randomized_points |-> 0, adjustment |-> 0, exceeded_max |-> FALSE]
       ELSE IF tier_distribution = <<>>
       THEN [raised |-> "None", projected_points |-> projected_points \div 10,
             randomized_points |-> projected_points \div 10,
             adjustment |-> 0, exceeded_max |-> FALSE]
       ELSE [raised |-> "None", projected_points |-> projected_points \div 10,
             randomized_points |-> IF raw > max_allowed THEN max_allowed
                                   ELSE IF raw < 0 THEN 0 ELSE raw,
             adjustment |-> RoundHalfEven(adjustment, 10),
             exceeded_max |-> raw > max_allowed]

\* the adjustments random.choice can draw for the player (0 stands for no draw)
Adjustments(player, distributions) ==
    IF player.position_tier \in DOMAIN distributions
       /\ distributions[player.position_tier] # <<>>
    THEN {distributions[player.position_tier][i] :
             i \in 1..Len(distributions[player.position_tier])}
    ELSE {0}

(***************************************************************************)
(* models/team.py                                                          *)
(***************************************************************************)
FlexPositions == {"rb", "wr", "te"}

RECURSIVE ConcatOver(_, _)
\* the concatenation of f[key] over keys, keys missing from f skipped
ConcatOver(keys, f) ==
    IF keys = <<>> THEN <<>>
    ELSE (IF Head(keys) \in DOMAIN f THEN f[Head(keys)] ELSE <<>>)
         \o ConcatOver(Tail(keys), f)

\* a slice that takes one starter too many
StarterSize_one_more(position) == ps[position] + 1

\* ps sizes as fill_starters reads them
StarterSize(position) == ps[position]

\* fill_starters(roster): output[position] for every position that has a
\* rostered player, output["flex"], output["starters"].  The source joins the
\* position lists in the iteration order of a Python set; the model lists them
\* in ps key order.
fill_starters(roster) ==
    LET players(p) == SelectSeq(roster, LAMBDA x : x.position = p)
        present == {p \in DOMAIN ps : players(p) # <<>>}
        primary == [p \in present |-> Take(SortedByPoints(players(p)), StarterSize(p))]
        not_flex == ConcatOver(ps_keys, primary)
        flex_players == SelectSeq(roster,
                           LAMBDA x : x.position \in FlexPositions /\ ~InSeq(x, not_flex))
        flex == Take(SortedByPoints(flex_players), StarterSize("flex"))
        output == [p \in present \cup {"flex"} |-> IF p = "flex" THEN flex ELSE primary[p]]
    IN [p \in DOMAIN output \cup {"starters"} |->
            IF p = "starters" THEN ConcatOver(ps_keys, output) ELSE output[p]]

\* a Team built without the validator: the starting lists stay as given
Team_stale(data) == data

\* Team(**data): autofill_starters overwrites the starting lists fill_starters
\* returns and keeps the others as given
Team(data) ==
    IF data.roster = <<>> THEN data
    ELSE LET s == fill_starters(data.roster)
             get(f) == IF f \in DOMAIN s THEN s[f] ELSE data[f]
         IN [draft_order |-> data.draft_order,
             simulator |-> data.simulator, roster |-> data.roster,
             starters |-> s["starters"],
             qb |-> get("qb"), rb |-> get("rb"), wr |-> get("wr"), te |-> get("te"),
             flex |-> get("flex"), dst |-> get("dst"), k |-> get("k")]

\* a team as create_league / load_teams builds it from a CSV row
NewTeam(draft_order, simulator) ==
    [draft_order |-> draft_order, simulator |-> simulator,
     roster |-> <<>>, starters |-> <<>>,
     qb |-> <<>>, rb |-> <<>>, wr |-> <<>>, te |-> <<>>,
     flex |-> <<>>, dst |-> <<>>, k |-> <<>>]

\* sorted(teams, key=draft_order): stable, ascending
RECURSIVE InsertByDraftOrder(_, _)
InsertByDraftOrder(t, s) ==
    IF s = <<>> THEN <<t>>
    ELSE IF Head(s).draft_order <= t.draft_order
         THEN <<Head(s)>> \o InsertByDraftOrder(t, Tail(s))
         ELSE <<t>> \o s

RECURSIVE SortedByDraftOrder(_)
SortedByDraftOrder(s) ==
    IF s = <<>> THEN <<>>
    ELSE InsertByDraftOrder(s[Len(s)], SortedByDraftOrder(SubSeq(s, 1, Len(s) - 1)))

\* the rosters randomized_starter_points can come to: every player's
\* projection replaced by a randomized one
RECURSIVE RandomizedRosters(_, _, _)
RandomizedRosters(roster, distributions, max_points) ==
    IF roster = <<>> THEN {<<>>}
    ELSE {<<[Head(roster) EXCEPT !.projected_points =
                10 * randomized_points(Head(roster), distributions, max_points, a).randomized_points]>>
          \o rest :
             a \in Adjustments(Head(roster), distributions),
             rest \in RandomizedRosters(Tail(roster), distributions, max_points)}

\* Team.randomized_starter_points: the values it can return, or the error of
\* the first player whose randomized points cannot be built
randomized_starter_points(team, distributions, max_points) ==
    IF \E i \in 1..Len(team.roster) : team.roster[i].projected_points % 10 # 0
    THEN {[score |-> 0, raised |-> "ValidationError"]}
    ELSE {LET starters == fill_starters(roster_copy)["starters"]
          IN [score |-> SumSeq([i \in 1..Len(starters) |-> starters[i].projected_points]),
              raised |-> "None"] :
             roster_copy \in RandomizedRosters(team.roster, distributions, max_points)}

\* a draft order that reverses the even rounds instead of the odd ones
RECURSIVE DraftOrderRounds_even_reversed(_, _, _)
DraftOrderRounds_even_reversed(i, team_indices, snake_draft) ==
    IF i >= ROUND_SIZE THEN <<>>
    ELSE (IF snake_draft /\ i % 2 = 0 THEN Reverse(team_indices) ELSE team_indices)
         \o DraftOrderRounds_even_reversed(i + 1, team_indices, snake_draft)

\* the `for i in range(ROUND_SIZE)` loop of the League validator, from round i on
RECURSIVE DraftOrderRounds(_, _, _)
DraftOrderRounds(i, team_indices, snake_draft) ==
    IF i >= ROUND_SIZE THEN <<>>
    ELSE (IF snake_draft /\ i % 2 # 0 THEN Reverse(team_indices) ELSE team_indices)
         \o DraftOrderRounds(i + 1, team_indices, snake_draft)

\* League(**data): sort_by_draft_order_and_validate_ready_to_draft.  Every
\* field is kept as given except teams (re-built and sorted) and draft_order
\* (built anew whatever data holds).  The player catalog passes through.
League(data) ==
    LET teams == SortedByDraftOrder([i \in 1..Len(data.teams) |-> Team(data.teams[i])])
        team_indices == [i \in 1..Len(teams) |-> IndexOf(teams[i], teams)]
    IN [data EXCEPT !.teams = teams,
                    !.draft_order = DraftOrderRounds(0, team_indices, data.snake_draft)]

\* add_player_to_current_draft_turn_team with roster.insert(0, player)
add_player_prepended(league, player) ==
    IF league.draft_order = <<>>
    THEN [league |-> league, raised |-> "IndexError"]
    ELSE LET team_index == Head(league.draft_order)
             team_dict == [league.teams[team_index + 1] EXCEPT !.roster = <<player>> \o @]
         IN [league |-> [league EXCEPT !.teams[team_index + 1] = Team(team_dict),
                                       !.current_draft_turn = @ + 1,
                                       !.draft_order = Tail(@)],
             raised |-> "None"]

\* League.add_player_to_current_draft_turn_team(player)
add_player_to_current_draft_turn_team(league, player) ==
    IF league.draft_order = <<>>
    THEN [league |-> league, raised |-> "IndexError"]
    ELSE LET team_index == Head(league.draft_order)
             team_dict == [league.teams[team_index + 1] EXCEPT !.roster = Append(@, player)]
         IN [league |-> [league EXCEPT !.teams[team_index + 1] = Team(team_dict),
                                       !.current_draft_turn = @ + 1,
                                       !.draft_order = Tail(@)],
             raised |-> "None"]

\* the numerators a fitted model may give the classes at one pick: every
\* probability of a logistic regression is positive
Probabilities(classes) == [1..Len(classes) -> 1..MaxWeight]

\* is the starting list of a position full
StartersFilled(team, position) == Len(team[position]) = ps[position]

RECURSIVE ZeroFilled(_, _, _, _)
\* the second `for position in starting_positions` loop: a filled position gets
\* weight 0, as a new key at the end when the model does not know it
ZeroFilled(todo, team, positions, weights) ==
    IF todo = <<>> THEN [positions |-> positions, weights |-> weights]
    ELSE LET p == Head(todo) IN
         IF ~StartersFilled(team, p) THEN ZeroFilled(Tail(todo), team, positions, weights)
         ELSE IF InSeq(p, positions)
              THEN ZeroFilled(Tail(todo), team, positions,
                              [weights EXCEPT ![IndexOf(p, positions) + 1] = 0])
              ELSE ZeroFilled(Tail(todo), team, Append(positions, p), Append(weights, 0))

\* Team.draft_turn_position_weights: probabilities are the model's numerators
\* for its classes; a weight is numerator / den
draft_turn_position_weights(team, classes, probabilities) ==
    LET raw == [positions |-> classes, weights |-> probabilities,
                den |-> SumSeq(probabilities), raised |-> "None"]
        starting_filled == Cardinality({i \in 1..Len(positions6) :
                                            StartersFilled(team, positions6[i])})
        zeroed == ZeroFilled(positions6, team, classes, probabilities)
        total_weight == SumSeq(zeroed.weights)
    IN IF starting_filled = Len(positions6) THEN raw
       ELSE IF total_weight = 0
            THEN [positions |-> <<>>, weights |-> <<>>, den |-> 0,
                  raised |-> "ZeroDivisionError"]
            ELSE [positions |-> zeroed.positions, weights |-> zeroed.weights,
                  den |-> total_weight, raised |-> "None"]

(***************************************************************************)
(* backend/app.py and backend/main.py                                      *)
(***************************************************************************)
\* a list left as it is: no entry marked
MarkDrafted_skipped(list, player_name) == list

\* the entry of a list with the first player of that name marked drafted
MarkDrafted(list, player_name) ==
    LET player_index == CHOOSE i \in 1..Len(list) :
                            /\ list[i].name = player_name
                            /\ \A j \in 1..(i - 1) : list[j].name # player_name
    IN [list EXCEPT ![player_index].drafted = TRUE]

\* app.py draft_player(player_name, league)
draft_player_app(player_name, league) ==
    LET players == league.players
        player == SelectSeq(players.players, LAMBDA x : x.name = player_name)
    IN IF player = <<>>
       THEN [league |-> league, raised |-> "HTTPException404"]
       ELSE LET position == player[1].position
                marked == [players EXCEPT !.players = MarkDrafted(@, player_name),
                                          ![position] = MarkDrafted(@, player_name)]
            IN add_player_to_current_draft_turn_team(
                   [league EXCEPT !.players = marked], player[1])

\* main.py draft_player(name, league, players): the drafted copy goes to the
\* roster, the catalog entry is not replaced
draft_player_main(name, league) ==
    LET player == SelectSeq(league.players.players, LAMBDA x : x.name = name)
    IN IF player = <<>>
       THEN [league |-> league, raised |-> "None"]
       ELSE IF ~player[1].drafted
            THEN add_player_to_current_draft_turn_team(
                     league, [player[1] EXCEPT !.drafted = TRUE])
            ELSE [league |-> league, raised |-> "ValueError"]

draft_player(prog, name, league) ==
    IF prog = "app" THEN draft_player_app(name, league)
    ELSE draft_player_main(name, league)

\* model.classes_: the sorted distinct labels of the training pairs
RECURSIVE SortedLabels(_)
SortedLabels(labels) ==
    IF labels = {} THEN <<>>
    ELSE LET first == CHOOSE p \in labels :
                          \A q \in labels : IndexOf(p, ClassOrder) <= IndexOf(q, ClassOrder)
         IN <<first>> \o SortedLabels(labels \ {first})

classes_(y) == SortedLabels({y[i] : i \in 1..Len(y)})

\* a fit that never raises
FitFails_never(y) == FALSE

\* LogisticRegression.fit raises on no samples or a single class
FitFails(y) == Cardinality({y[i] : i \in 1..Len(y)}) < 2

(***************************************************************************)
(* Inputs: the uploaded CSV files.                                         *)
(***************************************************************************)
\* the draftable players in file order; create_max_points needs at least one
\* player of every position
PlayerRows ==
    << Player("R2", "rb", 150), Player("Q1", "qb", 300), Player("R1", "rb", 250),
       Player("W1", "wr", 220), Player("T1", "te", 120), Player("D1", "dst", 80),
       Player("K1", "k", 90) >>

\* the names a pick is asked for by name: catalog players and a stranger
PickNames == {"Q1", "nobody"}

\* the position labels of the historical draft file (the Pos column)
TrainingLabels == { <<"qb", "rb">>, <<"wr", "qb", "rb">> }

\* a history file with a single position: the model cannot be fitted
SingleClassLabels == <<"qb", "qb">>

\* create_max_points: the best projection of each position
create_max_points(players) ==
    [p \in {positions6[i] : i \in 1..Len(positions6)} |->
        CHOOSE m \in {players[p][i].projected_points : i \in 1..Len(players[p])} :
            \A i \in 1..Len(players[p]) : players[p][i].projected_points <= m]

\* PositionTierDistributions(): every tier list empty
NoDistributions == PositionTierDistributions([t \in {} |-> <<>>])

\* distributions fitted from history: the running backs of the first tier
\* ended the season 50% below their projection
RbDistributions == PositionTierDistributions([t \in {"rb1"} |-> <<-500>>])

\* the draft slots of the team file, row by row: ascending or descending
SlotOrders == {[i \in 1..NumTeams |-> i], [i \in 1..NumTeams |-> NumTeams + 1 - i]}

\* create_league / load_teams followed by the upload of a player file and
\* of a history file
NewLeagueOf(rows, slots, simulator, snake_draft, y, distributions) ==
    League([teams |-> [i \in 1..NumTeams |-> NewTeam(slots[i], i = simulator)],
            snake_draft |-> snake_draft,
            draft_order |-> <<>>,
            current_draft_turn |-> 0,
            players |-> Players(rows),
            position_tier_distributions |-> distributions,
            position_max_points |-> create_max_points(Players(rows)),
            logistic_regression_variables |-> [y |-> y]])

NewLeague(slots, simulator, snake_draft, y, distributions) ==
    NewLeagueOf(PlayerRows, slots, simulator, snake_draft, y, distributions)

\* no League object
NoLeague ==
    [teams |-> <<>>, snake_draft |-> FALSE, draft_order |-> <<>>,
     current_draft_turn |-> 0, players |-> Players(<<>>),
     position_tier_distributions |-> NoDistributions,
     position_max_points |-> [p \in {} |-> 0],
     logistic_regression_variables |-> [y |-> <<>>]]

(***************************************************************************)
(* State.                                                                  *)
(***************************************************************************)
VARIABLES
    program,      \* "app" (backend/app.py) or "main" (backend/main.py)
    league,       \* the League of the draft
    league_copy,  \* the object model_copy(deep=True) made last
    last,         \* the last call and how it ended
    sp,           \* the frame of simulate_pick
    mc,           \* the frame of monte_carlo_draft
    fs,           \* a roster and what fill_starters returned for it
    rp,           \* a player, the league's tables and what randomized_points returned
    ct,           \* catalog rows and what assign_players_to_positions built from them
    tk            \* a draft reduced to its counters and the positions tracked for it

vars == <<program, league, league_copy, last, sp, mc, fs, rp, ct, tk>>

pure_vars == <<fs, rp, ct, tk>>

\* the variables of the Monte Carlo run and of the roster optimizer
mc_vars == <<league_copy, mc>>

sp_idle ==
    [pc |-> "idle", positions |-> <<>>, weights |-> <<>>, den |-> 0,
     candidates |-> 0, passes |-> 0, pick_number |-> 0, selection |-> "",
     player_name |-> "",
     \* model.classes_ and the numerators of predict_proba for the pick
     classes |-> <<>>, probabilities |-> <<>>]

mc_idle == [pc |-> "idle"]

NoOutput == [p \in {} |-> <<>>]

fs_empty == [roster |-> <<>>, output |-> NoOutput, done |-> FALSE]

\* no PlayerPointsRandomized built yet
NoPoints == [raised |-> "None", projected_points |-> 0, randomized_points |-> 0,
             adjustment |-> 0, exceeded_max |-> FALSE]

rp_none == [player |-> Player("", "", 0), distributions |-> <<>>, max_points |-> <<>>,
            adjustment |-> 0, output |-> NoPoints, done |-> FALSE]

ct_none == [rows |-> <<>>, players |-> <<>>, done |-> FALSE]

tk_none == [teams |-> 0, round_size |-> 0, current_draft_turn |-> 0,
            results |-> <<>>, done |-> FALSE]

Ended(op, name, raised) == [op |-> op, name |-> name, raised |-> raised]

Idle == sp.pc = "idle" /\ mc.pc = "idle"

Init ==
    /\ program \in {"app", "main"}
    /\ \E slots \in SlotOrders, snake_draft \in BOOLEAN, y \in TrainingLabels :
          \* main.py stops at start-up when the model cannot be fitted
          /\ program = "main" => ~FitFails(y)
          /\ league = NewLeague(slots, 1, snake_draft, y, NoDistributions)
    /\ league_copy = NoLeague
    /\ last = Ended("League", "", "None")
    /\ sp = sp_idle
    /\ mc = mc_idle
    /\ fs = fs_empty
    /\ rp = rp_none
    /\ ct = ct_none
    /\ tk = tk_none

(***************************************************************************)
(* Picks by name.                                                          *)
(***************************************************************************)
\* draft_player(name, league) called on the League object
DraftPlayer(name) ==
    /\ Idle
    /\ league.current_draft_turn < MaxTurn
    /\ LET r == draft_player(program, name, league) IN
         /\ league' = r.league
         /\ last' = Ended("draft_player", name, r.raised)
    /\ UNCHANGED <<program, sp, mc_vars, pure_vars>>

\* app.py make_draft_pick(draft_id, name): look the name up, draft_player,
\* engine.save; the save is not reached when a call above it raises
make_draft_pick(name, draft_league) ==
    IF SelectSeq(draft_league.players.players, LAMBDA x : x.name = name) = <<>>
    THEN [league |-> draft_league, raised |-> "HTTPException404"]
    ELSE LET r == draft_player_app(name, draft_league) IN
         IF r.raised = "None" THEN r ELSE [league |-> draft_league, raised |-> r.raised]

MakeDraftPick(name) ==
    /\ Idle
    /\ program = "app"
    /\ league.current_draft_turn < MaxTurn
    /\ LET r == make_draft_pick(name, league) IN
         /\ league' = r.league
         /\ last' = Ended("make_draft_pick", name, r.raised)
    /\ UNCHANGED <<program, sp, mc_vars, pure_vars>>

\* app.py create_draft_for_a_league: League(**league.model_dump())
Reconstruct ==
    /\ Idle
    /\ program = "app"
    /\ league' = League(league)
    /\ last' = Ended("League", "", "None")
    /\ UNCHANGED <<program, sp, mc_vars, pure_vars>>

(***************************************************************************)
(* simulate_pick, one pass of its sampling loop per step.                  *)
(***************************************************************************)
\* a position list taken without looking at the drafted flag
Undrafted_unfiltered(players, selection) == players[selection]

\* [x for x in getattr(players, selection) if x.drafted == False]
Undrafted(players, selection) == SelectSeq(players[selection], LAMBDA x : ~x.drafted)

\* the pick number handed to the model for the next real pick
NextPickNumber(lg) == lg.current_draft_turn + 1

\* app.py 180-193 / main.py 171-177: the weights of the team on the clock
SimulatePickBegin ==
    /\ Idle
    /\ league.current_draft_turn < MaxTurn
    /\ LET y == league.logistic_regression_variables.y IN
       IF program = "app" /\ FitFails(y)
       THEN /\ last' = Ended("simulate_pick", "", "HTTPException500")
            /\ sp' = sp
       ELSE IF league.draft_order = <<>>
       THEN /\ last' = Ended("simulate_pick", "", "IndexError")
            /\ sp' = sp
       ELSE \E probabilities \in Probabilities(classes_(y)) :
              LET team == league.teams[Head(league.draft_order) + 1]
                  w == draft_turn_position_weights(team, classes_(y), probabilities)
              IN IF w.raised # "None"
                 THEN /\ last' = Ended("simulate_pick", "", w.raised)
                      /\ sp' = sp
                 ELSE /\ last' = Ended("simulate_pick", "", "running")
                      /\ sp' = [pc |-> "loop", positions |-> w.positions,
                                weights |-> w.weights, den |-> w.den,
                                candidates |-> Len(w.positions), passes |-> 0,
                                pick_number |-> NextPickNumber(league),
                                selection |-> "", player_name |-> "",
                                classes |-> classes_(y),
                                probabilities |-> probabilities]
    /\ UNCHANGED <<program, league, mc_vars, pure_vars>>

\* weights.remove(weights[positions.index(selection)]): list.remove takes out
\* the first element equal to the value
RemoveWeight(weights, positions, selection) ==
    RemoveAt(weights, IndexOf(weights[IndexOf(selection, positions) + 1], weights))

\* a pass that leaves the exhausted position among the candidates
DropPosition_kept(positions, weights, selection) ==
    [positions |-> positions, weights |-> weights, reset |-> FALSE]

\* the candidates after a pass that found no undrafted player of selection
DropPosition(positions, weights, selection) ==
    LET w == RemoveWeight(weights, positions, selection)
        p == RemoveAt(positions, IndexOf(selection, positions))
    IN [positions |-> p,
        weights |-> IF SumSeq(w) = 0 THEN [i \in 1..Len(p) |-> 1] ELSE w,
        reset |-> SumSeq(w) = 0]

\* the player simulate_pick takes from a non-empty position_players
BestPlayer(position_players) == position_players[1]

\* one pass of `while len(position_players) == 0`, random.choices having drawn
\* selection; random.choices never draws a position of weight 0
SamplePass(frame, players, selection) ==
    LET position_players == Undrafted(players, selection) IN
    IF position_players = <<>>
    THEN LET d == DropPosition(frame.positions, frame.weights, selection) IN
         [frame EXCEPT !.positions = d.positions, !.weights = d.weights,
                       !.den = IF d.reset THEN 1 ELSE @,
                       !.passes = @ + 1, !.selection = selection]
    ELSE [frame EXCEPT !.pc = "returned", !.passes = @ + 1, !.selection = selection,
                       !.player_name = BestPlayer(position_players).name]

\* the positions random.choices can draw
Drawable(frame) ==
    {frame.positions[i] : i \in {j \in 1..Len(frame.positions) : frame.weights[j] > 0}}

SimulatePickPass ==
    /\ sp.pc = "loop"
    /\ mc.pc = "idle"
    /\ IF sp.positions = <<>>
       THEN \* random.choices on an empty population
            /\ sp' = sp_idle
            /\ last' = Ended("simulate_pick", "", "IndexError")
       ELSE IF Drawable(sp) = {}
       THEN /\ sp' = sp_idle
            /\ last' = Ended("simulate_pick", "", "ValueError")
       ELSE \E selection \in Drawable(sp) :
              /\ sp' = SamplePass(sp, league.players, selection)
              /\ last' = Ended("simulate_pick", sp'.player_name,
                               IF sp'.pc = "returned" THEN "None" ELSE "running")
    /\ UNCHANGED <<program, league, mc_vars, pure_vars>>

\* the caller drafts the name simulate_pick returned: make_draft_pick 669-681,
\* main.py 370
SimulatePickDraft ==
    /\ sp.pc = "returned"
    /\ mc.pc = "idle"
    /\ LET r == IF program = "app" THEN make_draft_pick(sp.player_name, league)
                ELSE draft_player_main(sp.player_name, league)
       IN /\ league' = r.league
          /\ last' = Ended("simulated_pick", sp.player_name, r.raised)
    /\ sp' = sp_idle
    /\ UNCHANGED <<program, mc_vars, pure_vars>>

Next ==
    \/ \E name \in PickNames : DraftPlayer(name)
    \/ \E name \in PickNames : MakeDraftPick(name)
    \/ Reconstruct
    \/ SimulatePickBegin
    \/ SimulatePickPass
    \/ SimulatePickDraft

Spec == Init /\ [][Next]_vars

(***************************************************************************)
(* The HTTP front end drafting by simulated picks alone: simulate_pick,    *)
(* then draft_player with the name it returned.                            *)
(***************************************************************************)
InitSim == Init /\ program = "app"

NextSim ==
    \/ SimulatePickBegin
    \/ SimulatePickPass
    \/ SimulatePickDraft

SpecSim == InitSim /\ [][NextSim]_vars

(***************************************************************************)
(* The same simulated picks over a player file with two tight ends and a   *)
(* history file of quarterbacks, tight ends and wide receivers: a team can *)
(* fill a position that still has an undrafted player.                     *)
(***************************************************************************)
PickRows ==
    << Player("T1", "te", 120), Player("Q1", "qb", 300), Player("R1", "rb", 250),
       Player("W1", "wr", 220), Player("T2", "te", 100), Player("D1", "dst", 80),
       Player("K1", "k", 90) >>

PickTrainingLabels == { <<"te", "qb", "wr">> }

InitPick ==
    /\ program \in {"app", "main"}
    /\ \E slots \in SlotOrders, snake_draft \in BOOLEAN, y \in PickTrainingLabels :
          league = NewLeagueOf(PickRows, slots, 1, snake_draft, y, NoDistributions)
    /\ league_copy = NoLeague
    /\ last = Ended("League", "", "None")
    /\ sp = sp_idle
    /\ mc = mc_idle
    /\ fs = fs_empty
    /\ rp = rp_none
    /\ ct = ct_none
    /\ tk = tk_none

SpecPick == InitPick /\ [][NextSim]_vars

(***************************************************************************)
(* monte_carlo_draft (specification SpecMC).  A step is one reading of the *)
(* clock, one visit of a tracked position up to the seeded pick, one       *)
(* simulated pick of simulate_draft, one scoring, or the averaging.        *)
(* league_copy is a local of monte_carlo_draft: it is gone when the call   *)
(* ends.                                                                   *)
(***************************************************************************)
\* one call of simulate_pick on lg: the names it can return and the
\* exceptions it can raise, from the sampling loop on
RECURSIVE SampleOutcomes(_, _)
SampleOutcomes(frame, players) ==
    IF frame.positions = <<>> THEN {[name |-> "", raised |-> "IndexError"]}
    ELSE IF Drawable(frame) = {} THEN {[name |-> "", raised |-> "ValueError"]}
    ELSE UNION {LET f == SamplePass(frame, players, selection)
                IN IF f.pc = "returned"
                   THEN {[name |-> f.player_name, raised |-> "None"]}
                   ELSE SampleOutcomes(f, players) :
                selection \in Drawable(frame)}

\* app.py simulate_pick(league, draft_pick_model) /
\* main.py simulate_pick(league, players, model, team_index, pick_number)
simulate_pick(lg, pick_number) ==
    IF lg.draft_order = <<>> THEN {[name |-> "", raised |-> "IndexError"]}
    ELSE LET classes == classes_(lg.logistic_regression_variables.y)
             team == lg.teams[Head(lg.draft_order) + 1]
         IN UNION {LET w == draft_turn_position_weights(team, classes, probabilities)
                   IN IF w.raised # "None" THEN {[name |-> "", raised |-> w.raised]}
                      ELSE SampleOutcomes([sp_idle EXCEPT !.pc = "loop",
                                              !.positions = w.positions,
                                              !.weights = w.weights, !.den = w.den,
                                              !.pick_number = pick_number,
                                              !.classes = classes,
                                              !.probabilities = probabilities],
                                          lg.players) :
                   probabilities \in Probabilities(classes)}

\* the object the name league_copy is bound to by
\* `league_copy = league.model_copy(deep=True)`: one of its own
ModelCopy_alias == "league"

ModelCopy == "league_copy"

\* the League the name league_copy of the running call refers to
Working == IF mc.league_copy = "league" THEN league ELSE league_copy

\* a write through the name ref
Bind(ref, lg) ==
    /\ league' = IF ref = "league" THEN lg ELSE league
    /\ league_copy' = IF ref = "league_copy" THEN lg ELSE league_copy

\* round(sum(scores) / len(scores), 2) with one score too many in the count
Average_one_more(scores) == RoundHalfEven(10 * SumSeq(scores), Len(scores) + 1)

\* round(sum(scores) / len(scores), 2), in hundredths of a point (the scores
\* are in tenths)
Average(scores) == RoundHalfEven(10 * SumSeq(scores), Len(scores))

\* results = {"qb": [], "rb": [], "wr": [], "te": []}, dst and k added late,
\* under a given ROUND_SIZE
TrackedPositionsUnder(round_size, lg) ==
    IF lg.current_draft_turn > round_size * 7
    THEN <<"qb", "rb", "wr", "te", "dst", "k">>
    ELSE <<"qb", "rb", "wr", "te">>

TrackedPositions(lg) == TrackedPositionsUnder(ROUND_SIZE, lg)

\* [i for i, team in enumerate(league.teams) if team.simulator]
SimulatorTeam(lg) ==
    LET idx == {i \in 1..Len(lg.teams) : lg.teams[i].simulator}
        RECURSIVE Asc(_)
        Asc(S) == IF S = {} THEN <<>>
                  ELSE LET m == CHOOSE x \in S : \A z \in S : x <= z
                       IN <<m - 1>> \o Asc(S \ {m})
    IN Asc(idx)

\* `i += 1` as the first statement of a visit, in both front ends
IterationsAtVisit_both(prog, i) == i + 1

\* main.py 232: `i += 1` is the first statement of a visit; app.py has none there
IterationsAtVisit(prog, i) == IF prog = "main" THEN i + 1 ELSE i

\* app.py 304: `i += 1` follows the scoring; main.py has none there
IterationsAtScore(prog, i) == IF prog = "app" THEN i + 1 ELSE i

\* an exception leaves monte_carlo_draft
MonteCarloRaise(raised) ==
    /\ mc' = mc_idle
    /\ league_copy' = NoLeague
    /\ last' = Ended("monte_carlo_draft", "", raised)

\* app.py 267-282 / main.py 222-230: up to the first test of the loop
MonteCarloBegin(seconds) ==
    /\ Idle
    \* main.py 327-337: called when the team on the clock is the simulator
    /\ program = "main" =>
          /\ league.draft_order # <<>>
          /\ league.teams[Head(league.draft_order) + 1].simulator
    /\ IF program = "app" /\ FitFails(league.logistic_regression_variables.y)
       THEN /\ mc' = mc
            /\ last' = Ended("monte_carlo_draft", "", "HTTPException500")
       ELSE /\ mc' = [pc |-> "check", invoked_with |-> league,
                      simulator_team |-> SimulatorTeam(league),
                      positions |-> TrackedPositions(league),
                      results |-> [p \in {TrackedPositions(league)[j] :
                                            j \in 1..Len(TrackedPositions(league))} |-> <<>>],
                      i |-> 0, seconds |-> seconds, elapsed |-> 0, passes |-> 0,
                      cursor |-> 1, league_copy |-> "league_copy",
                      sim_left |-> 0, sim_index |-> 0, pick_number |-> 0,
                      \* simulate_draft's len(draft_order) and the turn it starts at
                      sim_queue |-> 0, sim_turn |-> 0,
                      \* simulated drafts run to their scoring, visits that found
                      \* no player, and the count handed to the caller
                      drafts |-> 0, empty_visits |-> 0, iterations |-> 0,
                      \* best_player.name of the visit
                      best_player |-> "",
                      \* calls of fit_logistic_regression_model made by this run
                      fits |-> IF program = "app" THEN 1 ELSE 0,
                      report |-> NoOutput]
            /\ last' = Ended("monte_carlo_draft", "", "running")
    /\ UNCHANGED <<program, league, league_copy, sp, pure_vars>>

\* `while time.time() - start_time < seconds`: a reading of the clock, in
\* ticks since start_time; a pass takes at least one tick
MonteCarloCheck ==
    /\ mc.pc = "check"
    /\ \E now \in (IF mc.passes = 0 THEN 0 ELSE mc.elapsed + 1)..MaxSeconds :
          mc' = [mc EXCEPT !.elapsed = now,
                           !.pc = IF now < mc.seconds THEN "pass" ELSE "average"]
    /\ UNCHANGED <<program, league, league_copy, last, sp, pure_vars>>

\* the end of the body of `for position in results.keys()`
NextPosition(frame) ==
    IF frame.cursor < Len(frame.positions)
    THEN [frame EXCEPT !.pc = "pass", !.cursor = @ + 1]
    ELSE [frame EXCEPT !.pc = "check", !.cursor = 1, !.passes = @ + 1]

\* app.py 284-295 / main.py 232-244: the position's best undrafted player is
\* drafted into a deep copy of the league
MonteCarloVisit ==
    /\ mc.pc = "pass"
    /\ LET position == mc.positions[mc.cursor]
           possible_players == Undrafted(league.players, position)
           i == IterationsAtVisit(program, mc.i)
       IN IF possible_players = <<>>
          THEN /\ mc' = NextPosition([mc EXCEPT !.results[position] = Append(@, 0),
                                                !.i = i,
                                                !.empty_visits = @ + 1,
                                                !.league_copy =
                                                    IF program = "main" THEN ModelCopy ELSE @])
               /\ IF program = "main" THEN Bind(ModelCopy, league)
                  ELSE UNCHANGED <<league, league_copy>>
               /\ last' = last
          ELSE LET r == draft_player(program, possible_players[1].name, league) IN
               IF r.raised # "None"
               THEN /\ MonteCarloRaise(r.raised)
                    /\ league' = league
               ELSE /\ mc' = [mc EXCEPT !.pc = "simulate", !.i = i,
                                        !.league_copy = ModelCopy,
                                        !.sim_left = Len(r.league.draft_order),
                                        !.sim_index = 0,
                                        !.sim_queue = Len(r.league.draft_order),
                                        !.sim_turn = r.league.current_draft_turn,
                                        !.best_player = possible_players[1].name]
                    /\ Bind(ModelCopy, r.league)
                    /\ last' = last
    /\ UNCHANGED <<program, sp, pure_vars>>

\* one turn of the loop of simulate_draft: simulate_pick, then draft_player
MonteCarloSimulatedPick ==
    /\ mc.pc = "simulate"
    /\ mc.sim_left > 0
    /\ LET pick_number == IF program = "app" THEN Working.current_draft_turn + 1
                          ELSE mc.sim_index + 1
       IN \E o \in simulate_pick(Working, pick_number) :
            IF o.raised # "None"
            THEN /\ MonteCarloRaise(o.raised)
                 /\ league' = league
            ELSE LET r == draft_player(program, o.name, Working) IN
                 IF r.raised # "None"
                 THEN /\ MonteCarloRaise(r.raised)
                      /\ league' = league
                 ELSE /\ mc' = [mc EXCEPT !.sim_left = @ - 1, !.sim_index = @ + 1,
                                          !.pick_number = pick_number]
                      /\ Bind(mc.league_copy, r.league)
                      /\ last' = last
    /\ UNCHANGED <<program, sp, pure_vars>>

\* app.py 297-304 / main.py 247-251: the simulator's team is scored
MonteCarloScore ==
    /\ mc.pc = "simulate"
    /\ mc.sim_left = 0
    /\ IF mc.simulator_team = <<>>
       THEN /\ MonteCarloRaise("IndexError")
            /\ league' = league
       ELSE \E o \in randomized_starter_points(
                            Working.teams[mc.simulator_team[1] + 1],
                            league.position_tier_distributions,
                            league.position_max_points) :
              IF o.raised # "None"
              THEN /\ MonteCarloRaise(o.raised)
                   /\ league' = league
              ELSE /\ mc' = NextPosition([mc EXCEPT
                             !.results[mc.positions[mc.cursor]] = Append(@, o.score),
                             !.i = IterationsAtScore(program, @),
                             !.drafts = @ + 1])
                   /\ UNCHANGED <<league, league_copy, last>>
    /\ UNCHANGED <<program, sp, pure_vars>>

\* app.py 306-310 / main.py 259-262: the score lists become averages
MonteCarloAverage ==
    /\ mc.pc = "average"
    /\ IF \E p \in DOMAIN mc.results : mc.results[p] = <<>>
       THEN MonteCarloRaise("ZeroDivisionError")
       ELSE /\ mc' = [mc EXCEPT !.pc = "done",
                                !.report = [p \in DOMAIN mc.results |->
                                               Average(mc.results[p])],
                                !.iterations = mc.i]
            /\ league_copy' = league_copy
            /\ last' = Ended("monte_carlo_draft", "", "None")
    /\ UNCHANGED <<program, league, sp, pure_vars>>

\* the caller has the result; the frame is gone
MonteCarloReturn ==
    /\ mc.pc = "done"
    /\ mc' = mc_idle
    /\ league_copy' = NoLeague
    /\ UNCHANGED <<program, league, last, sp, pure_vars>>

\* the names drafted before the simulation is asked for
MCPickNames == {"T1", "W1"}

\* the history files of the Monte Carlo runs
MCTrainingLabels == { <<"qb", "rb">>, SingleClassLabels }

InitMC ==
    /\ program \in {"app", "main"}
    /\ \E slots \in SlotOrders, snake_draft \in BOOLEAN, y \in MCTrainingLabels,
          distributions \in {NoDistributions, RbDistributions} :
          /\ program = "main" => ~FitFails(y)
          /\ league = NewLeague(slots, 1, snake_draft, y, distributions)
    /\ league_copy = NoLeague
    /\ last = Ended("League", "", "None")
    /\ sp = sp_idle
    /\ mc = mc_idle
    /\ fs = fs_empty
    /\ rp = rp_none
    /\ ct = ct_none
    /\ tk = tk_none

NextMC ==
    \/ \E name \in MCPickNames : DraftPlayer(name)
    \/ \E seconds \in 0..MaxSeconds : MonteCarloBegin(seconds)
    \/ MonteCarloCheck
    \/ MonteCarloVisit
    \/ MonteCarloSimulatedPick
    \/ MonteCarloScore
    \/ MonteCarloAverage
    \/ MonteCarloReturn

SpecMC == InitMC /\ [][NextMC]_vars

(***************************************************************************)
(* The roster optimizer on its own (specification SpecStarters): a roster  *)
(* grows by one player at a time, as Team.roster does, and fill_starters   *)
(* is applied to it.                                                       *)
(***************************************************************************)
(***************************************************************************)
(* Player.randomized_points alone: one player of a catalog, the league's   *)
(* distributions and maximum points, and one draw of random.choice.        *)
(***************************************************************************)
\* a player file with projections that are not whole points (7.5 and 9.5)
PointsRows ==
    << Player("Q1", "qb", 300), Player("R1", "rb", 250), Player("R2", "rb", 150),
       Player("R3", "rb", 75), Player("W1", "wr", 220), Player("T1", "te", 120),
       Player("D1", "dst", 80), Player("D2", "dst", 65),
       Player("K1", "k", 90), Player("K2", "k", 95) >>

PointsCatalog == Players(PointsRows)

\* distributions fitted from history: running backs that lost 120% and 50%
\* and gained 12.5% and 100%, a quarterback that gained 10%
HistoricalDistributions ==
    PositionTierDistributions(
        [t \in {"rb1", "qb1"} |->
            IF t = "rb1" THEN <<-1200, -500, 125, 1000>> ELSE <<100>>])

\* PositionTierDistributions(**given) with keys that are no field of it
KeyedDistributions ==
    PositionTierDistributions(
        [t \in {"dst1", "k1", "dst", "k", "wr1"} |-> <<-500, 1000>>])

\* PositionMaxPoints(): every maximum 0
PositionMaxPoints == [p \in {positions6[i] : i \in 1..Len(positions6)} |-> 0]

InitPoints ==
    /\ program = "app"
    /\ league = NoLeague
    /\ league_copy = NoLeague
    /\ last = Ended("None", "", "None")
    /\ sp = sp_idle
    /\ mc = mc_idle
    /\ fs = fs_empty
    /\ ct = ct_none
    /\ tk = tk_none
    /\ \E i \in 1..Len(PointsCatalog.players),
          distributions \in {NoDistributions, HistoricalDistributions, KeyedDistributions},
          max_points \in {PositionMaxPoints, create_max_points(PointsCatalog)} :
            rp = [player |-> PointsCatalog.players[i], distributions |-> distributions,
                  max_points |-> max_points, adjustment |-> 0, output |-> NoPoints,
                  done |-> FALSE]

\* player.randomized_points(distributions, max_points)
RandomizedPoints ==
    /\ ~rp.done
    /\ \E adjustment \in Adjustments(rp.player, rp.distributions) :
        rp' = [rp EXCEPT !.adjustment = adjustment,
                         !.output = randomized_points(rp.player, rp.distributions,
                                                      rp.max_points, adjustment),
                         !.done = TRUE]
    /\ UNCHANGED <<program, league, last, sp, mc_vars, fs, ct, tk>>

NextPoints == RandomizedPoints

SpecPoints == InitPoints /\ [][NextPoints]_vars

(***************************************************************************)
(* Players(players=...) alone: a player file read row by row, then the     *)
(* catalog built from it by assign_players_to_positions.                   *)
(***************************************************************************)
\* rows in the player file
MaxRows == 7

\* ROSTER_SIZE of the environment the catalog is built in: a quarterback's
\* boundaries are then 2 and 5
TierRosterSize == 2

\* the names of the rows, in file order
RowNames == <<"P1", "P2", "P3", "P4", "P5", "P6", "P7", "P8", "P9">>

RowPositions == {"qb", "dst"}

RowPoints == {100, 200}

InitTiers ==
    /\ program = "app"
    /\ league = NoLeague
    /\ league_copy = NoLeague
    /\ last = Ended("None", "", "None")
    /\ sp = sp_idle
    /\ mc = mc_idle
    /\ fs = fs_empty
    /\ rp = rp_none
    /\ ct = ct_none
    /\ tk = tk_none

\* players.append(Player(...)) for one row of the file
AddRow(position, projected_points) ==
    /\ ~ct.done
    /\ Len(ct.rows) < MaxRows
    /\ ct' = [ct EXCEPT !.rows = Append(ct.rows, Player(RowNames[Len(ct.rows) + 1],
                                                         position, projected_points))]
    /\ UNCHANGED <<program, league, last, sp, mc_vars, fs, rp, tk>>

\* Players(players=players)
BuildPlayers ==
    /\ ~ct.done
    /\ ct' = [ct EXCEPT !.players = PlayersWithTiers(ct.rows, PositionTiers(TierRosterSize)),
                        !.done = TRUE]
    /\ UNCHANGED <<program, league, last, sp, mc_vars, fs, rp, tk>>

NextTiers ==
    \/ \E position \in RowPositions, projected_points \in RowPoints :
          AddRow(position, projected_points)
    \/ BuildPlayers

SpecTiers == InitTiers /\ [][NextTiers]_vars

(***************************************************************************)
(* The head of monte_carlo_draft alone, for leagues of any size: the draft *)
(* is reduced to its number of teams, the ROUND_SIZE it was built under    *)
(* and current_draft_turn.                                                 *)
(***************************************************************************)
\* teams in a league
MaxTeams == 8

\* ROUND_SIZE values of the environment
MaxRounds == 8

InitTracked ==
    /\ program = "app"
    /\ league = NoLeague
    /\ league_copy = NoLeague
    /\ last = Ended("None", "", "None")
    /\ sp = sp_idle
    /\ mc = mc_idle
    /\ fs = fs_empty
    /\ rp = rp_none
    /\ ct = ct_none
    /\ \E teams \in 1..MaxTeams, round_size \in 1..MaxRounds :
          tk = [tk_none EXCEPT !.teams = teams, !.round_size = round_size]

\* a pick: the queue built by the League validator holds
\* ROUND_SIZE * len(teams) entries, each pick takes one and adds one turn
TrackedPick ==
    /\ tk.current_draft_turn < tk.round_size * tk.teams
    /\ tk' = [tk EXCEPT !.current_draft_turn = @ + 1, !.results = <<>>, !.done = FALSE]
    /\ UNCHANGED <<program, league, last, sp, mc_vars, fs, rp, ct>>

\* monte_carlo_draft up to its results dictionary
TrackedBegin ==
    /\ ~tk.done
    /\ tk' = [tk EXCEPT !.results = TrackedPositionsUnder(tk.round_size, tk),
                        !.done = TRUE]
    /\ UNCHANGED <<program, league, last, sp, mc_vars, fs, rp, ct>>

NextTracked == TrackedPick \/ TrackedBegin

SpecTracked == InitTracked /\ [][NextTracked]_vars

\* rosters hold at most this many players
MaxRoster == 3

\* the players a roster is made of: equal projections, more players of a
\* position than it has slots, and a player already marked drafted
StarterPool ==
    { Player("Q1", "qb", 300), Player("Q2", "qb", 200),
      Player("R1", "rb", 250), Player("R2", "rb", 150), Player("R3", "rb", 150),
      Player("W1", "wr", 220), Player("T1", "te", 120), Player("T2", "te", 200),
      Player("D1", "dst", 80), Player("K1", "k", 90),
      [Player("R1", "rb", 250) EXCEPT !.drafted = TRUE] }

InitStarters ==
    /\ program = "app"
    /\ league = NoLeague
    /\ league_copy = NoLeague
    /\ last = Ended("None", "", "None")
    /\ sp = sp_idle
    /\ mc = mc_idle
    /\ fs = fs_empty
    /\ rp = rp_none
    /\ ct = ct_none
    /\ tk = tk_none

\* team.roster.append(player)
RosterAppend(player) ==
    /\ Len(fs.roster) < MaxRoster
    /\ fs' = [roster |-> Append(fs.roster, player), output |-> NoOutput, done |-> FALSE]
    /\ UNCHANGED <<program, league, last, sp, mc_vars, rp, ct, tk>>

\* fill_starters(roster)
FillStarters ==
    /\ ~fs.done
    /\ fs' = [fs EXCEPT !.output = fill_starters(fs.roster), !.done = TRUE]
    /\ UNCHANGED <<program, league, last, sp, mc_vars, rp, ct, tk>>

NextStarters ==
    \/ \E player \in StarterPool : RosterAppend(player)
    \/ FillStarters

SpecStarters == InitStarters /\ [][NextStarters]_vars

PrimaryPositions == {"qb", "rb", "wr", "te", "dst", "k"}

\* C8: fill_starters takes at most the configured number of starters for
\* every primary position and for flex; a flex player is an rb, wr or te that
\* is in no primary starting list; every starter is on the roster.
C8_StartersWithinCapacity ==
    fs.done =>
        LET out == fs.output
            listed == PrimaryPositions \cap DOMAIN out
        IN /\ Len(out["flex"]) <= FLEX_SIZE
           /\ \A p \in listed :
                 /\ Len(out[p]) <= ps[p]
                 /\ \A i \in 1..Len(out[p]) :
                       out[p][i].position = p /\ InSeq(out[p][i], fs.roster)
           /\ \A i \in 1..Len(out["flex"]) :
                 /\ out["flex"][i].position \in {"rb", "wr", "te"}
                 /\ InSeq(out["flex"][i], fs.roster)
                 /\ \A p \in listed : ~InSeq(out["flex"][i], out[p])
           /\ \A i \in 1..Len(out["starters"]) : InSeq(out["starters"][i], fs.roster)
           /\ \A p \in PrimaryPositions :
                 Cardinality({i \in 1..Len(out["starters"]) :
                                 out["starters"][i].position = p})
                 <= ps[p] + FLEX_SIZE
           /\ Len(out["starters"]) <= Len(fs.roster)

\* a roster with more players of a position than it has slots, one of them
\* starting as flex
C8_Witness ==
    /\ fs.done
    /\ Len(fs.output["flex"]) = 1
    /\ \E p \in PrimaryPositions :
          Cardinality({i \in 1..Len(fs.roster) : fs.roster[i].position = p}) > ps[p]

(***************************************************************************)
(* Properties of the draft (specification Spec).                           *)
(***************************************************************************)
\* the team rosters hold a player of that name
OnSomeRoster(lg, name) ==
    \E t \in 1..Len(lg.teams) : \E i \in 1..Len(lg.teams[t].roster) :
        lg.teams[t].roster[i].name = name

InCatalog(lg, name) ==
    \E i \in 1..Len(lg.players.players) : lg.players.players[i].name = name

TotalPicks == NumTeams * ROUND_SIZE

\* C2: in every reachable state current_draft_turn + len(draft_order) is the
\* number of picks of the league, N * ROUND_SIZE, also after the League has
\* been constructed again part-way through a draft.
C2_TurnPlusQueueIsTotal ==
    league.current_draft_turn + Len(league.draft_order) = TotalPicks

\* the entry of pick k (1-based) in the draft order of n teams
ExpectedEntry(k, n, snake_draft) ==
    LET i == (k - 1) \div n
        j == (k - 1) % n
    IN IF snake_draft /\ i % 2 = 1 THEN n - 1 - j ELSE j

\* C3: a League that has just been constructed holds its teams in ascending
\* slot order and a draft order of N * ROUND_SIZE entries, round i being the
\* team indices 0..N-1, reversed exactly when snake_draft holds and i is odd.
C3_DraftOrderBuilt ==
    last.op = "League" =>
        /\ \A a, b \in 1..Len(league.teams) :
              a < b => league.teams[a].draft_order < league.teams[b].draft_order
        /\ Len(league.draft_order) = Len(league.teams) * ROUND_SIZE
        /\ \A k \in 1..Len(league.draft_order) :
              league.draft_order[k] = ExpectedEntry(k, Len(league.teams), league.snake_draft)

\* a League constructed again during a snake draft
C3_Witness ==
    /\ last.op = "League"
    /\ league.snake_draft
    /\ league.current_draft_turn > 0
    /\ league.draft_order[Len(league.teams) + 1] = Len(league.teams) - 1

\* C4: a pick by name of a player who is already on a roster ends with an
\* error and leaves the league as it was, through draft_player and through
\* the make_draft_pick route.
C4_AlreadyDraftedRejected ==
    [][ (last'.op \in {"draft_player", "make_draft_pick"}
         /\ OnSomeRoster(league, last'.name))
        => (last'.raised # "None" /\ league' = league) ]_vars

\* C5: draft_player with a name that is not in the catalog ends with an error
\* and leaves the league as it was.
C5_UnknownNameRejected ==
    [][ (last'.op = "draft_player" /\ ~InCatalog(league, last'.name))
        => (last'.raised # "None" /\ league' = league) ]_vars

\* C6: the name simulate_pick returns is that of a catalog player of the
\* sampled position whose drafted flag is false (in the flat list and in the
\* position list) and no undrafted player of that position has more
\* projected points.
C6_PickIsBestUndrafted ==
    sp.pc = "returned" =>
        LET all == league.players.players
            listed == league.players[sp.selection]
        IN \E i \in 1..Len(all) :
              /\ all[i].name = sp.player_name
              /\ all[i].position = sp.selection
              /\ ~all[i].drafted
              /\ \E j \in 1..Len(listed) :
                    listed[j].name = sp.player_name /\ ~listed[j].drafted
              /\ \A j \in 1..Len(all) :
                    (all[j].position = sp.selection /\ ~all[j].drafted)
                    => all[j].projected_points <= all[i].projected_points

\* a pick returned after a sampled position had no undrafted player left, the
\* position of the pick being the last candidate
C6_Witness ==
    /\ sp.pc = "returned"
    /\ sp.passes >= 2
    /\ Len(sp.positions) = 1
    /\ \E i \in 1..Len(league.players.players) : league.players.players[i].drafted

\* C7: every pass of the sampling loop returns a pick or takes exactly one
\* position (and one weight) out of the candidates, so a pick comes within as
\* many passes as there were candidates; a pass that finds no candidate left
\* raises an error.
C7_SamplingLoopTerminates ==
    /\ [](/\ sp.pc = "loop" => /\ Len(sp.positions) = sp.candidates - sp.passes
                               /\ Len(sp.weights) = Len(sp.positions)
          /\ sp.pc = "returned" => (1 <= sp.passes /\ sp.passes <= sp.candidates))
    /\ [][ sp.pc = "loop" =>
             IF sp.positions = <<>>
             THEN sp'.pc = "idle" /\ last'.raised = "IndexError"
             ELSE \/ sp'.pc = "returned"
                  \/ /\ sp'.pc = "loop"
                     /\ Len(sp'.positions) = Len(sp.positions) - 1
                     /\ sp'.passes = sp.passes + 1 ]_vars

\* simulate_pick has failed because every candidate position ran out of players
C7_Witness ==
    /\ last.op = "simulate_pick"
    /\ last.raised = "IndexError"
    /\ league.draft_order # <<>>

(***************************************************************************)
(* Properties of monte_carlo_draft (specification SpecMC).                 *)
(***************************************************************************)
Abs(x) == IF x < 0 THEN -x ELSE x

\* C1: monte_carlo_draft never changes the league it is called with: at every
\* step of the run and when it ends, teams, rosters, starters, drafted flags,
\* draft_order and current_draft_turn are what they were at the call; the
\* seeded pick and the simulated picks are made on league_copy.
C1_RealLeagueUntouched ==
    mc.pc # "idle" =>
        /\ league = mc.invoked_with
        /\ mc.pc = "simulate" =>
              /\ league_copy.current_draft_turn
                    = league.current_draft_turn + 1 + mc.sim_index
              /\ Len(league_copy.draft_order) = mc.sim_left
              /\ league_copy.teams # league.teams

\* a run that ended after a full pass whose last simulated draft went to the
\* end of the queue
C1_Witness ==
    /\ mc.pc = "done"
    /\ mc.passes >= 1
    /\ league_copy.draft_order = <<>>
    /\ league.draft_order # <<>>
    /\ \E t \in 1..NumTeams :
          Len(league_copy.teams[t].roster) > Len(league.teams[t].roster)

\* C9: the value reported for a tracked position is the mean of the scores
\* recorded for it during the run, rounded to two decimals (here: the number
\* of hundredths nearest to the mean); a position without an undrafted player
\* during the run reports 0.
C9_AveragesAreRoundedMeans ==
    mc.pc = "done" =>
        /\ DOMAIN mc.report = {mc.positions[j] : j \in 1..Len(mc.positions)}
        /\ \A p \in DOMAIN mc.report :
              LET scores == mc.results[p]
                  n == Len(scores)
              IN /\ n = mc.passes
                 /\ n > 0
                 /\ 2 * Abs(10 * SumSeq(scores) - mc.report[p] * n) <= n
                 /\ Undrafted(league.players, p) = <<>> => mc.report[p] = 0

\* two passes that scored a position differently, and a position that has no
\* undrafted player
C9_Witness ==
    /\ mc.pc = "done"
    /\ mc.passes = 2
    /\ \E p \in DOMAIN mc.report :
          /\ mc.results[p][1] # mc.results[p][2]
          /\ mc.report[p] % 100 # 0
    /\ \E p \in DOMAIN mc.report :
          Undrafted(league.players, p) = <<>> /\ mc.report[p] = 0

\* C10: the time budget is tested between passes only; with a positive
\* budget at least one pass runs, and when the loop ends every tracked
\* position has the same number k >= 1 of scores.
C10_PositiveBudgetRunsAPass ==
    (mc.pc = "average" /\ mc.seconds > 0) =>
        \E k \in 1..MaxSeconds :
            \A p \in DOMAIN mc.results : Len(mc.results[p]) = k

\* the position labels the model is trained on
TrainedLabels(lg) ==
    {lg.logistic_regression_variables.y[i] :
        i \in 1..Len(lg.logistic_regression_variables.y)}

\* C11: a run of monte_carlo_draft fits the opponent model once, before the
\* first pass, and no simulated pick or later pass fits it again (main.py is
\* handed the model fitted at start-up and fits nothing); a training set
\* with fewer than two classes ends the call with an error before any pick
\* is simulated and with the league as it was.
C11_FittedOnceOrFails ==
    /\ [](mc.pc # "idle" =>
            /\ mc.fits = IF program = "app" THEN 1 ELSE 0
            /\ Cardinality(TrainedLabels(mc.invoked_with)) >= 2)
    /\ [][ (mc.pc = "idle" /\ last'.op = "monte_carlo_draft"
            /\ Cardinality(TrainedLabels(league)) < 2)
           => /\ last'.raised = "HTTPException500"
              /\ mc' = mc_idle
              /\ league' = league
              /\ league_copy' = league_copy ]_vars

\* the second pass of a run of app.py is simulating picks after one fit
C11_Witness ==
    /\ program = "app"
    /\ mc.pc = "simulate"
    /\ mc.passes >= 1
    /\ mc.sim_index >= 1
    /\ mc.fits = 1

(***************************************************************************)
(* Properties of Player.randomized_points (SpecPoints)                     *)
(***************************************************************************)
\* the list of adjustments the distributions hold for the player's tier
TierDistribution(player, distributions) ==
    IF player.position_tier \in DOMAIN distributions
    THEN distributions[player.position_tier] ELSE <<>>

\* floor(max_points[position] * (1 + max_points_adjustment)), in whole points
Cap(player, max_points) ==
    CHOOSE c \in 0..1000 :
        /\ 1000 * c <= max_points[player.position] * (100 + MAX_RANDOM_ADJUSTMENT)
        /\ max_points[player.position] * (100 + MAX_RANDOM_ADJUSTMENT) < 1000 * (c + 1)

C13_NoDistributionReturnsProjection ==
    (rp.done /\ (TierDistribution(rp.player, rp.distributions) = <<>>
                 \/ rp.player.position \in {"dst", "k"}))
    => /\ rp.output.raised = "None"
       /\ 10 * rp.output.randomized_points = rp.player.projected_points
       /\ ~rp.output.exceeded_max

(***************************************************************************)
(* Properties of the catalog (SpecTiers)                                   *)
(***************************************************************************)
\* the boundaries in force, doubled
Boundaries == PositionTiers(TierRosterSize)

\* C14: a position list is in descending order of projected points, and its
\* player at 0-indexed rank r is in tier pos1 if r < b1, in pos2 if
\* b1 <= r < b2 and in pos3 otherwise; the flat list shows the same tiers.
C14_TierByRank ==
    ct.done =>
      /\ \A p \in {"qb", "rb", "wr", "te"} :
           \A i \in 1..Len(ct.players[p]) :
              LET r == i - 1
                  player == ct.players[p][i]
              IN /\ player.position = p
                 /\ i > 1 => ct.players[p][i - 1].projected_points >= player.projected_points
                 /\ 2 * r < Boundaries[p].b1 => player.position_tier = p \o "1"
                 /\ (Boundaries[p].b1 <= 2 * r /\ 2 * r < Boundaries[p].b2)
                       => player.position_tier = p \o "2"
                 /\ Boundaries[p].b2 <= 2 * r => player.position_tier = p \o "3"
                 /\ \E j \in 1..Len(ct.players.players) : ct.players.players[j] = player
      /\ \A j \in 1..Len(ct.players.players) :
           LET player == ct.players.players[j]
           IN \E i \in 1..Len(ct.players[player.position]) :
                 ct.players[player.position][i] = player

\* seven quarterbacks with boundaries 2 and 5: ranks 0-1, 2-4 and 5-6
C14_Witness ==
    /\ ct.done
    /\ Len(ct.players.qb) = 7
    /\ ct.players.qb[1].projected_points > ct.players.qb[7].projected_points
    /\ ct.players.qb[2].position_tier = "qb1"
    /\ ct.players.qb[3].position_tier = "qb2"
    /\ ct.players.qb[5].position_tier = "qb2"
    /\ ct.players.qb[6].position_tier = "qb3"

\* C15: every dst and k player has a position_tier equal to its position
\* name, with no numbered sub-tier, whatever its rank.
C15_DstAndKTierIsPosition ==
    ct.done =>
      \A j \in 1..Len(ct.players.players) :
         ct.players.players[j].position \in {"dst", "k"}
            => ct.players.players[j].position_tier = ct.players.players[j].position

(***************************************************************************)
(* Properties of the picks (Spec), continued                               *)
(***************************************************************************)
\* the lists of the catalog: the flat list and the six position lists
CatalogLists == {"players", "qb", "rb", "wr", "te", "dst", "k"}

\* a step in which draft_player(name) ran to its end for a catalog player
DraftPlayerSucceeds(name) ==
    /\ last'.op \in {"draft_player", "make_draft_pick", "simulated_pick"}
    /\ last'.raised = "None"
    /\ last'.name = name
    /\ InCatalog(league, name)

\* what a step may do to the drafted flags of the catalog
FlagsSetAndKept ==
    /\ \A l \in CatalogLists :
          /\ Len(league'.players[l]) = Len(league.players[l])
          /\ \A i \in 1..Len(league.players[l]) :
                /\ league'.players[l][i].name = league.players[l][i].name
                /\ league.players[l][i].drafted => league'.players[l][i].drafted
    /\ \A name \in PickNames \cup {PlayerRows[i].name : i \in 1..Len(PlayerRows)} :
          DraftPlayerSucceeds(name) =>
             \A l \in CatalogLists : \A i \in 1..Len(league.players[l]) :
                IF league.players[l][i].name = name
                THEN league'.players[l][i].drafted
                ELSE league'.players[l][i].drafted = league.players[l][i].drafted

\* C16: after draft_player(name) succeeds the catalog shows the player as
\* drafted in the flat list and in its position list, no other player's flag
\* changes, and a flag once true never becomes false again.
C16_DraftedFlagSetAndKept == [][FlagsSetAndKept]_vars

(***************************************************************************)
(* Properties of simulate_draft (SpecMC)                                   *)
(***************************************************************************)
\* a step of simulate_draft that drafted the player simulate_pick named
SimulatedPickMade ==
    /\ mc.pc = "simulate"
    /\ mc'.pc = "simulate"
    /\ mc'.sim_index = mc.sim_index + 1

\* C17: simulate_draft on a league whose queue holds k picks makes exactly k
\* picks, ends with an empty draft_order and current_draft_turn advanced by
\* k, and each pick drafts a different, previously undrafted player.
C17_SimulateDraftMakesKPicks ==
    [][ SimulatedPickMade =>
          LET team == Head(league_copy.draft_order) + 1
              roster == league_copy'.teams[team].roster
              player == roster[Len(roster)]
          IN /\ ~OnSomeRoster(league_copy, player.name)
             /\ \A i \in 1..Len(league_copy.players.players) :
                   league_copy.players.players[i].name = player.name
                      => ~league_copy.players.players[i].drafted
             /\ mc'.sim_index <= mc.sim_queue
             /\ Len(league_copy'.draft_order) = mc.sim_queue - mc'.sim_index
             /\ league_copy'.current_draft_turn = mc.sim_turn + mc'.sim_index
             /\ mc'.sim_left = 0 <=> league_copy'.draft_order = <<>>
      ]_vars

(***************************************************************************)
(* Properties of League.add_player_to_current_draft_turn_team (Spec)       *)
(***************************************************************************)
\* is s the sequence t with one element appended
AppendedTo(s, t) == Len(s) = Len(t) + 1 /\ SubSeq(s, 1, Len(t)) = t

\* a step that made a pick
PickMade == league'.current_draft_turn # league.current_draft_turn

\* C18: each pick appends the drafted player to the end of the roster of the
\* team at the head of the draft_order queue, increments current_draft_turn
\* by one and removes that head entry; the rosters of all other teams are
\* unchanged, and no roster ever loses or reorders players.
C18_PickAppendsToHeadTeam ==
    [][ /\ Len(league'.teams) = Len(league.teams)
        /\ \A t \in 1..Len(league.teams) :
              /\ league'.teams[t].draft_order = league.teams[t].draft_order
              /\ \/ league'.teams[t].roster = league.teams[t].roster
                 \/ AppendedTo(league'.teams[t].roster, league.teams[t].roster)
        /\ PickMade =>
              /\ league.draft_order # <<>>
              /\ league'.current_draft_turn = league.current_draft_turn + 1
              /\ league'.draft_order = Tail(league.draft_order)
              /\ \A t \in 1..Len(league.teams) :
                    IF t = Head(league.draft_order) + 1
                    THEN /\ AppendedTo(league'.teams[t].roster, league.teams[t].roster)
                         /\ league'.teams[t].roster[Len(league'.teams[t].roster)].name
                               = last'.name
                    ELSE league'.teams[t].roster = league.teams[t].roster
        /\ (\E t \in 1..Len(league.teams) :
               league'.teams[t].roster # league.teams[t].roster) => PickMade
      ]_vars

\* the second pick of a draft is on the roster of the second team in turn
C18_Witness ==
    /\ league.current_draft_turn = 2
    /\ last.raised = "None"
    /\ last.op \in {"draft_player", "make_draft_pick", "simulated_pick"}
    /\ \E t \in 1..Len(league.teams) :
          /\ league.teams[t].roster # <<>>
          /\ league.teams[t].roster[Len(league.teams[t].roster)].name = last.name

(***************************************************************************)
(* Properties of simulated picks (SpecSim)                                 *)
(***************************************************************************)
\* the places (team, index) of the rosters where a player of that name is
RosterPlaces(lg, name) ==
    {<<t, i>> \in (1..Len(lg.teams)) \X (1..MaxTurn) :
        i <= Len(lg.teams[t].roster) /\ lg.teams[t].roster[i].name = name}

\* C19: starting from unique player names and empty rosters, after any
\* sequence of simulated picks every catalog player is at most once on the
\* rosters, and is flagged drafted in the catalog if and only if it is on
\* some team's roster.
C19_DraftedIffOnOneRoster ==
    /\ \A t \in 1..Len(league.teams) : Len(league.teams[t].roster) <= MaxTurn
    /\ \A l \in CatalogLists : \A i \in 1..Len(league.players[l]) :
          LET player == league.players[l][i]
          IN /\ Cardinality(RosterPlaces(league, player.name)) <= 1
             /\ player.drafted <=> OnSomeRoster(league, player.name)

\* two simulated picks made: two different players, each on one roster
C19_Witness ==
    /\ league.current_draft_turn >= 2
    /\ last.op = "simulated_pick" /\ last.raised = "None"
    /\ Cardinality({n \in {PlayerRows[i].name : i \in 1..Len(PlayerRows)} :
                       OnSomeRoster(league, n)}) >= 2

(***************************************************************************)
(* Properties of the tracked positions (SpecTracked)                       *)
(***************************************************************************)
\* C20: monte_carlo_draft tracks qb, rb, wr and te always, and tracks dst
\* and k exactly when more than 7 * (number of teams) picks have been made,
\* for any number of teams and any configured number of rounds.
C20_DstAndKAfterRoundSeven ==
    tk.done =>
       /\ \A p \in {"qb", "rb", "wr", "te"} : InSeq(p, tk.results)
       /\ InSeq("dst", tk.results) <=> tk.current_draft_turn > 7 * tk.teams
       /\ InSeq("k", tk.results) <=> tk.current_draft_turn > 7 * tk.teams

(***************************************************************************)
(* Properties of monte_carlo_draft (SpecMC), continued                     *)
(***************************************************************************)
\* the scores recorded so far, over all tracked positions
ScoresRecorded ==
    SumSeq([j \in 1..Len(mc.positions) |-> Len(mc.results[mc.positions[j]])])

C22_SeedOnSimulatorRoster ==
    (mc.pc = "simulate" /\ mc.sim_left = 0 /\ mc.simulator_team # <<>>)
    => \E i \in 1..Len(league_copy.teams[mc.simulator_team[1] + 1].roster) :
          league_copy.teams[mc.simulator_team[1] + 1].roster[i].name = mc.best_player

(***************************************************************************)
(* Properties of simulate_pick, continued                                  *)
(***************************************************************************)
\* the weight a candidate position carries in a frame of simulate_pick
WeightOf(frame, position) == frame.weights[IndexOf(position, frame.positions) + 1]

\* a pass of the sampling loop that took an exhausted position out
PositionRemoved ==
    /\ sp.pc = "loop"
    /\ sp'.pc = "loop"
    /\ Len(sp'.positions) = Len(sp.positions) - 1

\* C25: in simulate_pick the positions list and the weights list stay
\* aligned: after an exhausted position is removed, every remaining position
\* still carries the weight it had before the removal, or weight 1 after a
\* zero-sum reset, also when two positions have equal weight.
C25_WeightsStayAligned ==
    [][ PositionRemoved =>
          /\ Len(sp'.weights) = Len(sp'.positions)
          /\ \/ \A i \in 1..Len(sp'.positions) :
                   sp'.weights[i] = WeightOf(sp, sp'.positions[i])
             \/ /\ \A i \in 1..Len(sp'.positions) :
                      /\ sp'.weights[i] = 1
                      /\ WeightOf(sp, sp'.positions[i]) = 0
                /\ sp'.den = 1
      ]_vars

\* the team on the clock
OnTheClock == league.teams[Head(league.draft_order) + 1]

\* the numerator the model gave a class for the pick
ProbabilityOf(frame, position) ==
    frame.probabilities[IndexOf(position, frame.classes) + 1]

\* C23: draft_turn_position_weights returns the raw model probabilities
\* when the starter slots of all six positions are full; otherwise every
\* position whose slots are full has weight 0 and the others have their raw
\* probability, rescaled to sum to 1.  Hence a simulated pick never takes a
\* position whose slots are full while an unfilled position with positive
\* model weight still has an undrafted player.
C23_FilledPositionsHaveNoWeight ==
    [][ /\ (sp.pc = "idle" /\ sp'.pc = "loop") =>
             IF \A i \in 1..Len(positions6) : StartersFilled(OnTheClock, positions6[i])
             THEN /\ sp'.positions = sp'.classes
                  /\ sp'.weights = sp'.probabilities
                  /\ sp'.den = SumSeq(sp'.probabilities)
             ELSE /\ \A i \in 1..Len(sp'.classes) : InSeq(sp'.classes[i], sp'.positions)
                  /\ \A i \in 1..Len(sp'.positions) :
                        IF StartersFilled(OnTheClock, sp'.positions[i])
                        THEN sp'.weights[i] = 0
                        ELSE /\ InSeq(sp'.positions[i], sp'.classes)
                             /\ sp'.weights[i] = ProbabilityOf(sp', sp'.positions[i])
                  /\ sp'.den = SumSeq(sp'.weights)
                  /\ sp'.den > 0
        /\ (sp.pc = "loop" /\ sp'.pc = "returned"
              /\ StartersFilled(OnTheClock, sp'.selection)) =>
             ~ \E i \in 1..Len(sp.classes) :
                  /\ ~StartersFilled(OnTheClock, sp.classes[i])
                  /\ sp.probabilities[i] > 0
                  /\ Undrafted(league.players, sp.classes[i]) # <<>>
      ]_vars

\* the slots of the team are full at every class of the model, but not at all
\* six positions: the reweighting leaves a total of zero
EveryClassZeroed(team, classes) ==
    /\ \E i \in 1..Len(positions6) : ~StartersFilled(team, positions6[i])
    /\ \A i \in 1..Len(classes) : StartersFilled(team, classes[i])

\* C24: when the reweighting zeroes every position the model gave a positive
\* weight while not every tracked position is filled, simulate_pick goes on
\* with equal weights for its candidates: no division by a zero total, no
\* failure.
C24_ZeroTotalResetsToEqualWeights ==
    [][ ( /\ Idle
          /\ league.draft_order # <<>>
          /\ ~FitFails(league.logistic_regression_variables.y)
          /\ EveryClassZeroed(OnTheClock, classes_(league.logistic_regression_variables.y))
          /\ league' = league
          /\ last' # last
          /\ last'.op = "simulate_pick" ) =>
            /\ last'.raised = "running"
            /\ sp'.pc = "loop"
            /\ sp'.positions # <<>>
            /\ \A i \in 1..Len(sp'.weights) : sp'.weights[i] = sp'.weights[1]
            /\ sp'.den > 0
      ]_vars

\* C26: the pick number handed to the model for a simulated pick inside
\* simulate_draft, started from any point of the draft, is the 1-based
\* overall number of that turn: the picks already made plus one.
C26_PickNumberIsOverallTurn ==
    [][ ( /\ mc.pc = "simulate"
          /\ mc'.pc = "simulate"
          /\ mc'.sim_index = mc.sim_index + 1 ) =>
            mc'.pick_number = Working.current_draft_turn + 1
      ]_vars

StartingLists == {"starters", "qb", "rb", "wr", "te", "flex", "dst", "k"}

\* the list fill_starters gives a team for a field; a position without a
\* rostered player has no key in its output and the list is empty
StartersOf(roster, field) ==
    LET output == fill_starters(roster)
    IN IF field \in DOMAIN output THEN output[field] ELSE <<>>

\* C27: after every pick, the starters and the per-position starting lists
\* (qb, rb, wr, te, flex, dst, k) of every team equal fill_starters applied to
\* the team's current roster: no reachable state has stale starters.
C27_StartersFollowRoster ==
    \A i \in 1..Len(league.teams) : \A field \in StartingLists :
        league.teams[i][field] = StartersOf(league.teams[i].roster, field)

\* a team that made two picks and whose starters are not its roster as drafted
C27_Witness ==
    \E i \in 1..Len(league.teams) :
        /\ Len(league.teams[i].roster) >= 2
        /\ league.teams[i].starters # league.teams[i].roster
        /\ league.current_draft_turn >= 2

\* selected is the top `capacity` of candidates by projected points, in
\* descending order, players of equal points in their order in candidates.
\* Players are compared by value, as `player not in not_flex` does.
TopByPoints(selected, candidates, capacity) ==
    /\ Len(selected) = Min(capacity, Len(candidates))
    /\ \A i \in 1..Len(selected) : InSeq(selected[i], candidates)
    /\ \A i \in 1..Len(selected) : \A j \in 1..Len(candidates) :
          ~InSeq(candidates[j], selected) =>
             /\ candidates[j].projected_points <= selected[i].projected_points
             /\ candidates[j].projected_points = selected[i].projected_points =>
                   IndexOf(selected[i], candidates) < IndexOf(candidates[j], candidates)
    /\ \A i, j \in 1..Len(selected) :
          i < j =>
             /\ selected[i].projected_points >= selected[j].projected_points
             /\ selected[i].projected_points = selected[j].projected_points =>
                   IndexOf(selected[i], candidates) <= IndexOf(selected[j], candidates)

DraftPlayerQueueEmpty(name) ==
    /\ Idle
    /\ league.draft_order = <<>>
    /\ LET r == draft_player(program, name, league) IN
         /\ league' = r.league
         /\ last' = Ended("draft_player", name, r.raised)
    /\ UNCHANGED <<program, sp, mc_vars, pure_vars>>

\* the names asked for after the last turn: a player drafted before and one
\* still undrafted
LatePickNames == {"Q1", "R1"}

NextNamed ==
    \/ \E name \in PickNames : DraftPlayer(name)
    \/ \E name \in LatePickNames : DraftPlayerQueueEmpty(name)

SpecNamed == Init /\ [][NextNamed]_vars

\* C29: a pick by name made when the draft_order queue is empty fails and
\* leaves the league as it was: no drafted flag is set, no roster grows and
\* current_draft_turn does not change.
C29_PickOnEmptyQueueChangesNothing ==
    [][ ( /\ league.draft_order = <<>>
          /\ last'.op = "draft_player"
          /\ InCatalog(league, last'.name) ) =>
            /\ last'.raised # "None"
            /\ league'.players = league.players
            /\ league'.teams = league.teams
            /\ league'.current_draft_turn = league.current_draft_turn
      ]_vars

\* C30: when the maximum of the player's position is left at its default 0,
\* randomized_points does not cap: a player with a non-empty tier distribution
\* gets round(projected * (1 + adjustment)), or 0 if that is negative, and
\* exceeded_max stays false.
C30_UnsetMaximumDoesNotCap ==
    (rp.done /\ rp.output.raised = "None"
       /\ TierDistribution(rp.player, rp.distributions) # <<>>
       /\ rp.max_points[rp.player.position] = 0)
    => LET exact == rp.player.projected_points * (1000 + rp.adjustment)
       IN /\ ~rp.output.exceeded_max
          /\ \E rounded \in -1000..1000 :
                /\ 2 * Abs(10000 * rounded - exact) <= 10000
                /\ rp.output.randomized_points = IF rounded < 0 THEN 0 ELSE rounded

====
